---- MODULE Spec2Model ----
(***************************************************************************)
(* A model of BindgenContext (src/src/ir/context.rs): the item graph, the  *)
(* type registry, the replacement table, deferred type-reference           *)
(* resolution, the generation phase and the whitelisted-items iterator.    *)
(***************************************************************************)
EXTENDS Integers, Sequences, FiniteSets, TLC

\* ------------------------------------------------------------------ bounds

\* ItemId::next() is not called once MaxId ids have been issued.
MaxId == 4

\* Number of items of a graph drawn for the whitelisted-items iteration.
MaxGraph == 2

\* with_module calls nested in one another's callbacks.
MaxDepth == 2

\* Children the with_module callbacks collect, over all modules.
MaxChildren == 2

\* Calls of note_parsed_macro.
MaxNotes == 4

\* Ids issued where only primitive types are looked up: a lookup draws two.
MaxBuiltinId == 6

\* Ids issued where two references are resolved to a new item each.
MaxResolveId == 6

\* ------------------------------------------------------------- front end
\* The libclang front end, as far as the context consults it.  Cursors,
\* types and USRs are strings; "null" is the invalid cursor.

\* Option::None for an ItemId.
NoId == 0

\* Option::None for a name (Type::name()), a cursor or a USR.
None == "none"

NullCursor == "null"

\* The raw clang types the parser meets.
ClangTypes == {"int", "S", "PtrS", "TmplS", "L", "A1", "A2", "Bad"}

\* clang::Type::declaration()
TyDeclaration(ty) ==
    CASE ty = "S" -> "fwdS"
      [] ty = "TmplS" -> "declTmpl"
      [] ty = "L" -> "declL"
      [] ty = "A1" -> "declA1"
      [] ty = "A2" -> "declA2"
      [] OTHER -> NullCursor

\* clang::Type::kind()
TyKind(ty) ==
    CASE ty = "int" -> "CXType_Int"
      [] ty \in {"S", "L", "A1", "A2"} -> "CXType_Record"
      [] ty = "PtrS" -> "CXType_Pointer"
      [] ty = "TmplS" -> "CXType_Unexposed"
      [] OTHER -> "CXType_Invalid"

\* clang::Type::pointee_type()
Pointee(ty) == IF ty = "PtrS" THEN "S" ELSE None

\* clang::Type::spelling(), the name a first-time type is given
TySpelling(ty) == ty

\* Cursor::is_valid()
IsValid(cursor) == cursor # NullCursor

\* Cursor::canonical(): "fwdS" is a forward declaration of the struct S,
\* "ns1b" reopens the namespace "ns1".
Canonical(cursor) ==
    CASE cursor = "fwdS" -> "declS"
      [] cursor = "ns1b" -> "ns1"
      [] OTHER -> cursor

\* Cursor::usr(): the typedef of S has a USR of its own, the struct L
\* declared at "declL" has none, and the two anonymous structs nested in S,
\* declared at "declA1" and "declA2", have the same
Usr(cursor) ==
    CASE cursor = "declS" -> "c:@S@S"
      [] cursor = "declR" -> "c:@S@R"
      [] cursor = "declTdS" -> "c:@T@S"
      [] cursor = "declE" -> "c:@Ea@RED"
      [] cursor = "declTmpl" -> "c:@ST>1#T@Tmpl"
      [] cursor \in {"declA1", "declA2"} -> "c:@S@S@Sa"
      [] OTHER -> None

\* Cursor::kind()
CursorKind(cursor) ==
    CASE cursor \in {"declS", "declR", "fwdS", "declL", "declA1",
                     "declA2"} ->
            "CXCursor_StructDecl"
      [] cursor = "declTdS" -> "CXCursor_TypedefDecl"
      [] cursor = "declE" -> "CXCursor_EnumDecl"
      [] cursor = "declTmpl" -> "CXCursor_ClassTemplate"
      [] cursor \in {"locField1", "locField0"} -> "CXCursor_FieldDecl"
      [] cursor \in {"ns1", "ns1b"} -> "CXCursor_Namespace"
      [] cursor = "typeref" -> "CXCursor_TypeRef"
      [] OTHER -> "CXCursor_NoDeclFound"

\* Cursor::cur_type()
CurType(cursor) ==
    CASE cursor \in {"declS", "fwdS"} -> "S"
      [] OTHER -> None

\* The types of the CXCursor_TypeRef children Cursor::visit meets under a
\* location, in source order: the field `Tmpl<S> f` names one argument, the
\* field at locField0 uses a partial specialization and names none.
TypeRefChildren(location) ==
    CASE location = "locField1" -> <<"S">>
      [] OTHER -> <<>>

\* The name module() reads from the tokens of a namespace cursor.
ModuleName(cursor) == "N"

TemplateCursorKinds ==
    {"CXCursor_ClassTemplate", "CXCursor_ClassTemplatePartialSpecialization"}

\* ----------------------------------------------------------------- items

Ids == 1 .. MaxId

\* std::collections::HashMap hashes with a RandomState drawn per process: a
\* HashMap iterates in an order that changes from one run to the next.
HashSeeds == {0, 1}

Names == {"S", "R"}

\* An Item with its Type payload flattened into one record.
\*   kind     ItemKind: "Module", "Type", "Function" or "Var"
\*   name     Module / Type / Function / Var name, None when unnamed
\*   tk       TypeKind of a Type item, None otherwise
\*   target   ResolvedTypeRef(target), TemplateRef(target, args)
\*   refs     the item ids the payload holds (fields, inner types, signature)
\*   rawty, loc, uparent   UnresolvedTypeRef(rawty, loc, uparent)
\*   children a Module's children
\*   variants an Enum's variant names
\*   nargs    CompInfo::template_args().len()
\*   spec     CompInfo::is_template_specialization()
Item(id, kind, parent, name, tk, target, refs, rawty, loc, uparent, variants) ==
    [id |-> id, kind |-> kind, parent |-> parent, name |-> name, tk |-> tk,
     target |-> target, refs |-> refs, rawty |-> rawty, loc |-> loc,
     uparent |-> uparent, children |-> <<>>, variants |-> variants,
     args |-> <<>>, nargs |-> 0, spec |-> FALSE]

\* Item::new(id, None, None, parent, ItemKind::Module(Module::new(name)))
ModuleItem(id, parent, name) ==
    Item(id, "Module", parent, name, None, NoId, {}, None, None, NoId, {})

\* Item::new(id, None, None, parent, ItemKind::Type(Type::new(name, _, kind, _)))
TypeItem(id, parent, name, tk, target, refs) ==
    Item(id, "Type", parent, name, tk, target, refs, None, None, NoId, {})

\* HashMap::insert / BTreeMap::insert: the old value, if any, is replaced.
Insert(map, key, value) ==
    [k \in DOMAIN map \cup {key} |-> IF k = key THEN value ELSE map[k]]

VARIABLES
    items,                \* BTreeMap<ItemId, Item>
    types,                \* HashMap<TypeKey, ItemId>
    modules,              \* HashMap<Cursor, ItemId>
    root_module,
    current_module,
    replacements,         \* HashMap<String, ItemId>
    warned,               \* the names replace has logged a warn! about
    collected_typerefs,
    gen_ctx,              \* TRUE for Some(_)
    options,              \* the three whitelists, each a set of names
    next_id,              \* the counter behind ItemId::next()
    with_module_stack,    \* the with_module calls whose callback is running
    iter,                 \* the WhitelistedItemsIter of the running callback
    produced,             \* what iter has returned so far
    panicked,             \* an assert!, expect or unwrap has aborted the process
    panic_msg,            \* and this is the assertion that failed
    debug_assertions,     \* the build: debug_assert! is compiled in
    hash_seed,            \* the RandomState the HashMaps of this run hash with
    first_run,            \* what an earlier run on the same input put out
    parsed_macros,        \* HashSet<String>
    macro_calls           \* the names note_parsed_macro was called with

vars == <<items, types, modules, root_module, current_module, replacements,
          warned, collected_typerefs, gen_ctx, options, next_id, with_module_stack,
          iter, produced, panicked, panic_msg,
          debug_assertions, hash_seed, first_run,
          parsed_macros, macro_calls>>

\* --------------------------------------------------- the context, as a value
\* The fields of BindgenContext an operation reads or writes, so that an
\* operation that calls others is one function from context to context.

Ctx ==
    [items |-> items, types |-> types, next_id |-> next_id,
     current_module |-> current_module, root_module |-> root_module,
     collected_typerefs |-> collected_typerefs,
     replacements |-> replacements, panicked |-> panicked,
     panic_msg |-> panic_msg]

\* panic!: the process aborts; what was written before it stays written.
Panic(c, msg) == [c EXCEPT !.panicked = TRUE, !.panic_msg = msg]

\* ItemId::next()
NextId(c) == [c EXCEPT !.next_id = c.next_id + 1]

\* Type::is_builtin_or_named()
is_builtin_or_named(item) ==
    item.tk \in {"Void", "NullPtr", "Int", "Float", "Function", "Array",
                 "Pointer", "Reference", "Named"}

\* The tail of add_item: self.types.insert(key, id); debug_assert_eq!(old, None)
types_insert(c, key, id) ==
    LET inserted == [c EXCEPT !.types = Insert(c.types, key, id)]
    IN  IF key \in DOMAIN c.types /\ debug_assertions
        THEN Panic(inserted, "add_item: debug_assert_eq!(old, None)")
        ELSE inserted

\* add_item without `assert!(old_item.is_none(), "Inserted type twice?")`:
\* a second insertion under an id silently takes the place of the first.
add_item_overwrite(c, item, declaration, location) ==
    LET id == item.id
        is_type == item.kind = "Type"
        is_unnamed == is_type /\ item.name = None
        inserted == [c EXCEPT !.items = Insert(c.items, id, item)]
        declaration1 ==
            IF /\ ~IsValid(declaration)
               /\ location # None
               /\ CursorKind(location) \in TemplateCursorKinds
            THEN location
            ELSE declaration
        declaration2 == Canonical(declaration1)
    IN  IF c.panicked THEN c
        ELSE IF /\ debug_assertions
                /\ ~(declaration # None \/ ~is_type \/ is_builtin_or_named(item))
        THEN Panic(c, "Adding a type without declaration?")
        ELSE IF ~(is_type /\ declaration # None) THEN inserted
        ELSE IF ~IsValid(declaration2) THEN inserted
        ELSE IF is_unnamed
        THEN types_insert(inserted, <<"Declaration", declaration2>>, id)
        ELSE IF Usr(declaration2) # None
        THEN types_insert(inserted, <<"USR", Usr(declaration2)>>, id)
        ELSE inserted

\* add_item that keys a named type whose declaration has no USR by the
\* declaration, as it does an unnamed one.
add_item_key_declaration(c, item, declaration, location) ==
    LET id == item.id
        is_type == item.kind = "Type"
        is_unnamed == is_type /\ item.name = None
        inserted == [c EXCEPT !.items = Insert(c.items, id, item)]
        declaration1 ==
            IF /\ ~IsValid(declaration)
               /\ location # None
               /\ CursorKind(location) \in TemplateCursorKinds
            THEN location
            ELSE declaration
        declaration2 == Canonical(declaration1)
    IN  IF c.panicked THEN c
        ELSE IF /\ debug_assertions
                /\ ~(declaration # None \/ ~is_type \/ is_builtin_or_named(item))
        THEN Panic(c, "Adding a type without declaration?")
        ELSE IF id \in DOMAIN c.items
        THEN Panic(inserted, "add_item: Inserted type twice?")
        ELSE IF ~(is_type /\ declaration # None) THEN inserted
        ELSE IF ~IsValid(declaration2) THEN inserted
        ELSE IF is_unnamed \/ Usr(declaration2) = None
        THEN types_insert(inserted, <<"Declaration", declaration2>>, id)
        ELSE types_insert(inserted, <<"USR", Usr(declaration2)>>, id)

\* add_item that keys an unnamed type by its USR when it has one
add_item_key_usr(c, item, declaration, location) ==
    LET id == item.id
        is_type == item.kind = "Type"
        inserted == [c EXCEPT !.items = Insert(c.items, id, item)]
        declaration1 ==
            IF /\ ~IsValid(declaration)
               /\ location # None
               /\ CursorKind(location) \in TemplateCursorKinds
            THEN location
            ELSE declaration
        declaration2 == Canonical(declaration1)
    IN  IF c.panicked THEN c
        ELSE IF /\ debug_assertions
                /\ ~(declaration # None \/ ~is_type \/ is_builtin_or_named(item))
        THEN Panic(c, "Adding a type without declaration?")
        ELSE IF id \in DOMAIN c.items
        THEN Panic(inserted, "add_item: Inserted type twice?")
        ELSE IF ~(is_type /\ declaration # None) THEN inserted
        ELSE IF ~IsValid(declaration2) THEN inserted
        ELSE IF Usr(declaration2) # None
        THEN types_insert(inserted, <<"USR", Usr(declaration2)>>, id)
        ELSE inserted

\* BindgenContext::add_item
add_item(c, item, declaration, location) ==
    LET id == item.id
        is_type == item.kind = "Type"
        is_unnamed == is_type /\ item.name = None
        inserted == [c EXCEPT !.items = Insert(c.items, id, item)]
        declaration1 ==
            IF /\ ~IsValid(declaration)
               /\ location # None
               /\ CursorKind(location) \in TemplateCursorKinds
            THEN location
            ELSE declaration
        declaration2 == Canonical(declaration1)
    IN  IF c.panicked THEN c
        ELSE IF /\ debug_assertions
                /\ ~(declaration # None \/ ~is_type \/ is_builtin_or_named(item))
        THEN Panic(c, "Adding a type without declaration?")
        ELSE IF id \in DOMAIN c.items
        THEN Panic(inserted, "add_item: Inserted type twice?")
        ELSE IF ~(is_type /\ declaration # None) THEN inserted
        ELSE IF ~IsValid(declaration2) THEN inserted
        ELSE IF is_unnamed
        THEN types_insert(inserted, <<"Declaration", declaration2>>, id)
        ELSE IF Usr(declaration2) # None
        THEN types_insert(inserted, <<"USR", Usr(declaration2)>>, id)
        ELSE inserted

\* BindgenContext::add_builtin_item
add_builtin_item(c, item) ==
    LET inserted == [c EXCEPT !.items = Insert(c.items, item.id, item)]
    IN  IF c.panicked THEN c
        ELSE IF debug_assertions /\ item.kind # "Type"
        THEN Panic(c, "add_builtin_item: debug_assert!(is_type)")
        ELSE IF item.id \in DOMAIN c.items
        THEN Panic(inserted, "add_builtin_item: Inserted type twice?")
        ELSE inserted

\* build_ty_wrapper that copies the canonical node under the new id instead
\* of forwarding to it.
build_ty_wrapper_copy(c, with_id, wrapped_id, parent_id, ty) ==
    LET item == [c.items[wrapped_id] EXCEPT !.id = with_id]
    IN  [c |-> add_builtin_item(c, item), ret |-> with_id]

\* BindgenContext::build_ty_wrapper
build_ty_wrapper(c, with_id, wrapped_id, parent_id, ty) ==
    LET parent == IF parent_id # NoId THEN parent_id ELSE c.current_module
        item == TypeItem(with_id, parent, TySpelling(ty), "ResolvedTypeRef",
                         wrapped_id, {})
    IN  [c |-> add_builtin_item(c, item), ret |-> with_id]

\* The match of build_builtin_ty: the TypeKind of a primitive, None otherwise.
BuiltinKind(ty) ==
    CASE TyKind(ty) \in {"CXType_NullPtr"} -> "NullPtr"
      [] TyKind(ty) \in {"CXType_Void"} -> "Void"
      [] TyKind(ty) \in {"CXType_Bool", "CXType_Int", "CXType_UInt",
                         "CXType_SChar", "CXType_Char_S", "CXType_UChar",
                         "CXType_Char_U", "CXType_Short", "CXType_UShort",
                         "CXType_WChar", "CXType_Char16", "CXType_Char32",
                         "CXType_Long", "CXType_ULong", "CXType_LongLong",
                         "CXType_ULongLong", "CXType_Int128",
                         "CXType_UInt128"} -> "Int"
      [] TyKind(ty) \in {"CXType_Float", "CXType_Double",
                         "CXType_LongDouble"} -> "Float"
      [] OTHER -> None

\* build_builtin_ty that parents the new item at the current module
build_builtin_ty_current(c, ty) ==
    LET type_kind == BuiltinKind(ty)
        id == c.next_id
        item == TypeItem(id, c.current_module, TySpelling(ty), type_kind, NoId,
                         {})
    IN  IF type_kind = None
        THEN [c |-> c, ret |-> NoId]
        ELSE [c |-> add_builtin_item(NextId(c), item), ret |-> id]

\* BindgenContext::build_builtin_ty
build_builtin_ty(c, ty) ==
    LET type_kind == BuiltinKind(ty)
        id == c.next_id
        item == TypeItem(id, c.root_module, TySpelling(ty), type_kind, NoId, {})
    IN  IF type_kind = None
        THEN [c |-> c, ret |-> NoId]
        ELSE [c |-> add_builtin_item(NextId(c), item), ret |-> id]

\* ------------------------------------------------ type lookup and creation

RECURSIVE builtin_or_resolved_ty(_, _, _, _, _)
RECURSIVE build_template_wrapper(_, _, _, _, _, _)
RECURSIVE visit_type_refs(_, _, _, _)
RECURSIVE from_ty_or_ref(_, _, _, _)
RECURSIVE from_ty_with_id(_, _, _, _, _)

\* Item::from_ty: the resolution entry point of the parser.  It asks
\* builtin_or_resolved_ty first and creates the node of a type met for the
\* first time through add_item; a type it can make nothing of is an Err
\* (ret = NoId).
from_ty_with_id(c, id, ty, location, parent_id) ==
    LET found == builtin_or_resolved_ty(c, id, parent_id, ty, location)
        parent == IF parent_id # NoId THEN parent_id ELSE c.current_module
        inner == from_ty_or_ref(c, Pointee(ty), location, parent_id)
    IN  IF found.ret # NoId \/ found.c.panicked THEN found
        ELSE IF TyKind(ty) = "CXType_Record"
        THEN [c |-> add_item(c, TypeItem(id, parent, TySpelling(ty), "Comp",
                                         NoId, {}),
                             TyDeclaration(ty), location),
              ret |-> id]
        ELSE IF TyKind(ty) = "CXType_Pointer"
        THEN [c |-> add_item(inner.c,
                             TypeItem(id, parent, None, "Pointer", NoId,
                                      {inner.ret}),
                             TyDeclaration(ty), location),
              ret |-> id]
        ELSE [c |-> c, ret |-> NoId]

from_ty(c, ty, location, parent_id) ==
    from_ty_with_id(NextId(c), c.next_id, ty, location, parent_id)

\* Item::from_ty_or_ref: as from_ty once the type references have been
\* collected; before that, a type that is neither registered nor builtin
\* becomes an UnresolvedTypeRef item, added with a null declaration.
from_ty_or_ref(c, ty, location, parent_id) ==
    LET potential_id == c.next_id
        c1 == NextId(c)
        resolved == from_ty_with_id(c1, potential_id, ty, location, parent_id)
        found == builtin_or_resolved_ty(c1, potential_id, parent_id, ty, location)
        parent == IF parent_id # NoId THEN parent_id ELSE c.current_module
        unresolved == Item(potential_id, "Type", parent, None,
                           "UnresolvedTypeRef", NoId, {}, ty, location,
                           parent_id, {})
    IN  IF c.panicked THEN [c |-> c, ret |-> NoId]
        ELSE IF c.collected_typerefs
        THEN IF resolved.ret = NoId
             THEN [c |-> Panic(resolved.c, "Unable to resolve type"),
                   ret |-> NoId]
             ELSE resolved
        ELSE IF found.ret # NoId \/ found.c.panicked THEN found
        ELSE [c |-> add_item(c1, unresolved, NullCursor, None),
              ret |-> potential_id]

\* location.visit(..) of build_template_wrapper: one from_ty_or_ref per
\* CXCursor_TypeRef child, with the generic declaration as the parent.
visit_type_refs(c, children, wrapping, args) ==
    IF children = <<>> THEN [c |-> c, args |-> args]
    ELSE LET new_ty == from_ty_or_ref(c, Head(children), "typeref", wrapping)
         IN  visit_type_refs(new_ty.c, Tail(children), wrapping,
                             Append(args, new_ty.ret))

\* build_template_wrapper that hands with_id, not the generic declaration,
\* to from_ty_or_ref as the parent of the arguments.
build_template_wrapper_parent(c, with_id, wrapping, parent_id, ty, location) ==
    LET visited == visit_type_refs(c, TypeRefChildren(location), with_id, <<>>)
        c1 == visited.c
        args == visited.args
        wrapping_type == c1.items[wrapping]
        item == [TypeItem(with_id, parent_id,
                          IF TySpelling(ty) = "" THEN None ELSE TySpelling(ty),
                          "TemplateRef", wrapping, {})
                 EXCEPT !.args = args]
    IN  IF c1.panicked THEN [c |-> c1, ret |-> NoId]
        ELSE IF wrapping \notin DOMAIN c1.items
                \/ wrapping_type.kind # "Type"
                \/ wrapping_type.tk # "Comp"
        THEN [c |-> Panic(c1, "how?"), ret |-> NoId]
        ELSE IF wrapping_type.nargs # Len(args)
        THEN [c |-> c1, ret |-> wrapping]
        ELSE [c |-> [c1 EXCEPT !.items = Insert(c1.items, with_id, item)],
              ret |-> with_id]

\* BindgenContext::build_template_wrapper
build_template_wrapper(c, with_id, wrapping, parent_id, ty, location) ==
    LET visited == visit_type_refs(c, TypeRefChildren(location), wrapping, <<>>)
        c1 == visited.c
        args == visited.args
        wrapping_type == c1.items[wrapping]
        item == [TypeItem(with_id, parent_id,
                          IF TySpelling(ty) = "" THEN None ELSE TySpelling(ty),
                          "TemplateRef", wrapping, {})
                 EXCEPT !.args = args]
    IN  IF c1.panicked THEN [c |-> c1, ret |-> NoId]
        ELSE IF wrapping \notin DOMAIN c1.items
                \/ wrapping_type.kind # "Type"
                \/ wrapping_type.tk # "Comp"
        THEN [c |-> Panic(c1, "how?"), ret |-> NoId]
        ELSE IF wrapping_type.nargs # Len(args)
        THEN [c |-> c1, ret |-> wrapping]
        ELSE [c |-> [c1 EXCEPT !.items = Insert(c1.items, with_id, item)],
              ret |-> with_id]

\* builtin_or_resolved_ty without the class-template case: every registry
\* hit is answered with a forwarding wrapper.
builtin_or_resolved_ty_no_template(c, with_id, parent_id, ty, location) ==
    LET declaration ==
            IF /\ ~IsValid(TyDeclaration(ty))
               /\ location # None
               /\ CursorKind(location) \in TemplateCursorKinds
            THEN location
            ELSE TyDeclaration(ty)
        canonical_declaration == Canonical(declaration)
        id == IF <<"Declaration", canonical_declaration>> \in DOMAIN c.types
              THEN c.types[<<"Declaration", canonical_declaration>>]
              ELSE IF /\ Usr(canonical_declaration) # None
                      /\ <<"USR", Usr(canonical_declaration)>> \in DOMAIN c.types
              THEN c.types[<<"USR", Usr(canonical_declaration)>>]
              ELSE NoId
    IN  IF c.panicked THEN [c |-> c, ret |-> NoId]
        ELSE IF IsValid(canonical_declaration) /\ id # NoId
        THEN build_ty_wrapper(c, with_id, id, parent_id, ty)
        ELSE build_builtin_ty(c, ty)

\* BindgenContext::builtin_or_resolved_ty
builtin_or_resolved_ty(c, with_id, parent_id, ty, location) ==
    LET declaration ==
            IF /\ ~IsValid(TyDeclaration(ty))
               /\ location # None
               /\ CursorKind(location) \in TemplateCursorKinds
            THEN location
            ELSE TyDeclaration(ty)
        canonical_declaration == Canonical(declaration)
        id == IF <<"Declaration", canonical_declaration>> \in DOMAIN c.types
              THEN c.types[<<"Declaration", canonical_declaration>>]
              ELSE IF /\ Usr(canonical_declaration) # None
                      /\ <<"USR", Usr(canonical_declaration)>> \in DOMAIN c.types
              THEN c.types[<<"USR", Usr(canonical_declaration)>>]
              ELSE NoId
    IN  IF c.panicked THEN [c |-> c, ret |-> NoId]
        ELSE IF IsValid(canonical_declaration) /\ id # NoId
        THEN IF /\ CursorKind(declaration) \in TemplateCursorKinds
                /\ ty # CurType(canonical_declaration)
                /\ location # None
                /\ parent_id # NoId
             THEN build_template_wrapper(c, with_id, id, parent_id, ty, location)
             ELSE build_ty_wrapper(c, with_id, id, parent_id, ty)
        ELSE build_builtin_ty(c, ty)

\* ------------------------------------------------------ generation set-up

\* The ids of a set in ascending order: the order BTreeMap iterates in.
RECURSIVE Ascending(_)
Ascending(ids) ==
    IF ids = {} THEN <<>>
    ELSE LET least == CHOOSE i \in ids : \A j \in ids : i <= j
         IN  <<least>> \o Ascending(ids \ {least})

\* *item.kind_mut().as_type_mut().unwrap().kind_mut() = ResolvedTypeRef(target)
SetResolvedTypeRef(item, target) ==
    [item EXCEPT !.tk = "ResolvedTypeRef", !.target = target, !.refs = {},
                 !.rawty = None, !.loc = None, !.uparent = NoId,
                 !.variants = {}, !.args = <<>>, !.nargs = 0, !.spec = FALSE]

\* collect_typerefs over a map that yields its keys from the greatest down.
collect_typerefs_descending(c) ==
    LET unresolved == {id \in DOMAIN c.items :
                          /\ c.items[id].kind = "Type"
                          /\ c.items[id].tk = "UnresolvedTypeRef"}
        ordered == Ascending(unresolved)
        n == Len(ordered)
    IN  [i \in 1 .. n |->
            [id |-> ordered[n + 1 - i], ty |-> c.items[ordered[n + 1 - i]].rawty,
             loc |-> c.items[ordered[n + 1 - i]].loc,
             parent_id |-> c.items[ordered[n + 1 - i]].uparent]]

\* BindgenContext::collect_typerefs: the (id, ty, loc, parent_id) tuples.
collect_typerefs(c) ==
    LET unresolved == {id \in DOMAIN c.items :
                          /\ c.items[id].kind = "Type"
                          /\ c.items[id].tk = "UnresolvedTypeRef"}
        ordered == Ascending(unresolved)
    IN  [i \in 1 .. Len(ordered) |->
            [id |-> ordered[i], ty |-> c.items[ordered[i]].rawty,
             loc |-> c.items[ordered[i]].loc,
             parent_id |-> c.items[ordered[i]].uparent]]

\* The loop of resolve_typerefs without the assignment to the item's kind:
\* every reference is resolved and the item is left as it was.
RECURSIVE resolve_each_keep(_, _)
resolve_each_keep(c, typerefs) ==
    IF typerefs = <<>> \/ c.panicked THEN c
    ELSE LET t == Head(typerefs)
             resolved == from_ty(c, t.ty, t.loc, t.parent_id)
             c1 == resolved.c
         IN  IF c1.panicked THEN c1
             ELSE IF resolved.ret = NoId THEN Panic(c1, "What happened?")
             ELSE IF t.id \notin DOMAIN c1.items
                     \/ c1.items[t.id].kind # "Type"
             THEN Panic(c1, "resolve_typerefs: unwrap")
             ELSE resolve_each_keep(c1, Tail(typerefs))

\* The loop of resolve_typerefs over what is left of the batch.
RECURSIVE resolve_each(_, _)
resolve_each(c, typerefs) ==
    IF typerefs = <<>> \/ c.panicked THEN c
    ELSE LET t == Head(typerefs)
             resolved == from_ty(c, t.ty, t.loc, t.parent_id)
             c1 == resolved.c
         IN  IF c1.panicked THEN c1
             ELSE IF resolved.ret = NoId THEN Panic(c1, "What happened?")
             ELSE IF t.id \notin DOMAIN c1.items
                     \/ c1.items[t.id].kind # "Type"
             THEN Panic(c1, "resolve_typerefs: unwrap")
             ELSE resolve_each(
                      [c1 EXCEPT !.items[t.id] =
                          SetResolvedTypeRef(c1.items[t.id], resolved.ret)],
                      Tail(typerefs))

\* BindgenContext::resolve_typerefs
resolve_typerefs(c) ==
    IF debug_assertions /\ c.collected_typerefs
    THEN Panic(c, "debug_assert!(!self.collected_typerefs)")
    ELSE resolve_each([c EXCEPT !.collected_typerefs = TRUE],
                      collect_typerefs(c))

\* Item::real_canonical_name: the name replacements and whitelists go by.
canonical_name(item) == IF item.name = None THEN "_bindgen_anon" ELSE item.name

\* The first loop of process_replacements with the aliases left out of the
\* match on the type's kind.
replaceable_comp_only(c, id) ==
    LET item == c.items[id]
        name == canonical_name(item)
    IN  /\ item.kind = "Type"
        /\ item.tk = "Comp" /\ ~item.spec
        /\ name \in DOMAIN c.replacements
        /\ c.replacements[name] # id
        /\ c.replacements[name] \in DOMAIN c.items

\* The first loop of process_replacements without `replacement != id`
replaceable_by_itself(c, id) ==
    LET item == c.items[id]
        name == canonical_name(item)
    IN  /\ item.kind = "Type"
        /\ \/ item.tk = "Comp" /\ ~item.spec
           \/ item.tk \in {"TemplateAlias", "Alias"}
        /\ name \in DOMAIN c.replacements
        /\ c.replacements[name] \in DOMAIN c.items

\* The first loop of process_replacements: may item id be replaced, and by
\* an item other than itself that is in the graph?
replaceable(c, id) ==
    LET item == c.items[id]
        name == canonical_name(item)
    IN  /\ item.kind = "Type"
        /\ \/ item.tk = "Comp" /\ ~item.spec
           \/ item.tk \in {"TemplateAlias", "Alias"}
        /\ name \in DOMAIN c.replacements
        /\ c.replacements[name] # id
        /\ c.replacements[name] \in DOMAIN c.items

\* process_replacements that drops a replaced item from the graph instead
\* of redirecting it.
process_replacements_remove(c) ==
    IF c.panicked \/ DOMAIN c.replacements = {} THEN c
    ELSE [c EXCEPT !.items =
             [id \in {i \in DOMAIN c.items : ~replaceable(c, i)} |->
                 c.items[id]]]

\* BindgenContext::process_replacements
process_replacements(c) ==
    IF c.panicked \/ DOMAIN c.replacements = {} THEN c
    ELSE [c EXCEPT !.items =
             [id \in DOMAIN c.items |->
                 IF replaceable(c, id)
                 THEN SetResolvedTypeRef(c.items[id],
                                         c.replacements[canonical_name(c.items[id])])
                 ELSE c.items[id]]]

\* gen without the test of collected_typerefs: every call resolves and
\* replaces again.
gen_setup_every_call(c) == process_replacements(resolve_typerefs(c))

\* The part of gen before the callback: if !self.collected_typerefs() {..}
gen_setup(c) ==
    IF c.collected_typerefs THEN c
    ELSE process_replacements(resolve_typerefs(c))

\* ------------------------------------------------- whitelisted-items iterator

\* options.whitelisted_*.matches(name)
matches(whitelist, name) == name \in whitelist

\* The filter closure without its first test: with nothing whitelisted no
\* item matches.
is_root_filtered(item) ==
    CASE item.kind = "Module" -> FALSE
      [] item.kind = "Function" ->
           matches(options.functions, canonical_name(item))
      [] item.kind = "Var" -> matches(options.vars, canonical_name(item))
      [] OTHER ->
           \/ matches(options.types, canonical_name(item))
           \/ /\ item.tk = "Enum"
              /\ item.name = None
              /\ \E variant \in item.variants :
                    matches(options.vars, variant)

\* The filter closure without the test of ty.name().is_none(): an enum
\* that has a name is a root through its variants too.
is_root_any_enum(item) ==
    IF options.types = {} /\ options.functions = {} /\ options.vars = {}
    THEN TRUE
    ELSE CASE item.kind = "Module" -> FALSE
           [] item.kind = "Function" ->
                matches(options.functions, canonical_name(item))
           [] item.kind = "Var" -> matches(options.vars, canonical_name(item))
           [] OTHER ->
                \/ matches(options.types, canonical_name(item))
                \/ /\ item.tk = "Enum"
                   /\ \E variant \in item.variants :
                         matches(options.vars, variant)

\* The filter closure of whitelisted_items: is the item a root?
is_root(item) ==
    IF options.types = {} /\ options.functions = {} /\ options.vars = {}
    THEN TRUE
    ELSE CASE item.kind = "Module" -> FALSE
           [] item.kind = "Function" ->
                matches(options.functions, canonical_name(item))
           [] item.kind = "Var" -> matches(options.vars, canonical_name(item))
           [] OTHER ->
                \/ matches(options.types, canonical_name(item))
                \/ /\ item.tk = "Enum"
                   /\ item.name = None
                   /\ \E variant \in item.variants :
                         matches(options.vars, variant)

\* let roots = self.items().filter(..).map(|(&id, _)| id)
roots == {id \in DOMAIN items : is_root(items[id])}

\* seen.iter().cloned().rev().collect() over a HashSet in the place of the
\* ItemSet: the order is the one the hasher of this run gives.
HashOrder(ids) ==
    LET ascending == Ascending(ids)
        n == Len(ascending)
    IN  IF hash_seed = 0 THEN ascending
        ELSE [i \in 1 .. n |-> ascending[n + 1 - i]]

\* seen.iter().cloned().collect(), without the .rev()
NotReversed(ids) == Ascending(ids)

\* seen.iter().cloned().rev().collect(): a BTreeSet iterates in ascending order
RECURSIVE Descending(_)
Descending(ids) ==
    IF ids = {} THEN <<>>
    ELSE LET greatest == CHOOSE i \in ids : \A j \in ids : j <= i
         IN  <<greatest>> \o Descending(ids \ {greatest})

\* ItemId::collect_types: the ids the item's payload directly references.
collect_types(id) ==
    LET item == items[id]
    IN  item.refs
        \cup (IF item.target # NoId THEN {item.target} ELSE {})
        \cup {item.args[i] : i \in 1 .. Len(item.args)}

\* The loop of next leaving after the first sub type.
push_unseen_first(it, sub_types) ==
    IF sub_types = <<>> THEN it
    ELSE LET id == Head(sub_types)
         IN  IF id \in it.seen THEN it
             ELSE [it EXCEPT !.seen = it.seen \cup {id},
                             !.to_iterate = Append(it.to_iterate, id)]

\* The loop of next pushing a sub type whether it was seen or not.
RECURSIVE push_unseen_again(_, _)
push_unseen_again(it, sub_types) ==
    IF sub_types = <<>> THEN it
    ELSE LET id == Head(sub_types)
         IN  push_unseen_again(
                 [it EXCEPT !.seen = it.seen \cup {id},
                            !.to_iterate = Append(it.to_iterate, id)],
                 Tail(sub_types))

\* The loop of next testing seen.contains(&id) in the place of
\* seen.insert(id): an unseen sub type is pushed and not marked.
RECURSIVE push_unseen_unmarked(_, _)
push_unseen_unmarked(it, sub_types) ==
    IF sub_types = <<>> THEN it
    ELSE LET id == Head(sub_types)
         IN  push_unseen_unmarked(
                 IF id \in it.seen THEN it
                 ELSE [it EXCEPT !.to_iterate = Append(it.to_iterate, id)],
                 Tail(sub_types))

\* for id in sub_types { if self.seen.insert(id) { self.to_iterate.push(id) } }
RECURSIVE push_unseen(_, _)
push_unseen(it, sub_types) ==
    IF sub_types = <<>> THEN it
    ELSE LET id == Head(sub_types)
         IN  push_unseen(
                 IF id \in it.seen THEN it
                 ELSE [it EXCEPT !.seen = it.seen \cup {id},
                                 !.to_iterate = Append(it.to_iterate, id)],
                 Tail(sub_types))

\* No earlier run.
NoRun == [done |-> FALSE, hash_seed |-> 0, items |-> <<>>, produced |-> <<>>]

NoIter == [active |-> FALSE, seen |-> {}, to_iterate |-> <<>>,
           exhausted |-> FALSE]

\* ---------------------------------------------------------------- actions

\* What the parser hands to add_item for a declaration it has parsed:
\* struct S, struct R, typedef .. S and a function named S.
Declared ==
    {[kind |-> "Type", tk |-> "Comp", name |-> "S", decl |-> "declS",
      variants |-> {}, nargs |-> 0],
     [kind |-> "Type", tk |-> "Comp", name |-> "R", decl |-> "declR",
      variants |-> {}, nargs |-> 0],
     [kind |-> "Type", tk |-> "Alias", name |-> "S", decl |-> "declTdS",
      variants |-> {}, nargs |-> 0],
     [kind |-> "Function", tk |-> None, name |-> "S", decl |-> None,
      variants |-> {}, nargs |-> 0]}

TypeIds == {id \in DOMAIN items : items[id].kind = "Type"}

ModuleIds == {id \in DOMAIN items : items[id].kind = "Module"}

\* The ids a declared item holds: an alias holds the type it names, parsed
\* before it; the structs and the function are parsed without members.
RefChoices(d, id) ==
    IF d.tk = "Alias" THEN {{r} : r \in TypeIds} ELSE {{}}

\* The (type, location, parent) occurrences the parser looks up.
Occurrences ==
    {<<"int", None, NoId>>, <<"S", None, NoId>>, <<"PtrS", None, NoId>>,
     <<"Bad", None, NoId>>}

\* The context after an operation.  A panic aborts the process: nothing of
\* the context can be observed afterwards, so only the abort is recorded.
CommitUpTo(c, max_id) ==
    IF c.panicked
    THEN /\ panicked' = TRUE
         /\ panic_msg' = c.panic_msg
         /\ UNCHANGED <<items, types, next_id, collected_typerefs>>
    ELSE /\ c.next_id <= max_id + 1
         /\ UNCHANGED <<panicked, panic_msg>>
         /\ items' = c.items
         /\ types' = c.types
         /\ next_id' = c.next_id
         /\ collected_typerefs' = c.collected_typerefs

Commit(c) == CommitUpTo(c, MaxId)

\* An assertion fails: the process aborts.
Abort(msg) == panicked' = TRUE /\ panic_msg' = msg

Parsing == ~panicked /\ ~gen_ctx

\* add_item(item, declaration, location) with a fresh id, or with an id that
\* is already in the graph, while ids up to max_id are issued.
AddItemUpTo(d, id, refs, location, max_id) ==
    /\ Parsing
    /\ id <= max_id
    /\ LET item == [Item(id, d.kind, current_module, d.name, d.tk, NoId, refs,
                         None, None, NoId, d.variants)
                    EXCEPT !.nargs = d.nargs]
           c == IF id = next_id THEN NextId(Ctx) ELSE Ctx
       IN  CommitUpTo(add_item(c, item, d.decl, location), max_id)
    /\ UNCHANGED <<modules, root_module, current_module, replacements, warned,
                   gen_ctx, options, with_module_stack, iter, produced,
                   debug_assertions, hash_seed, first_run,
                   parsed_macros, macro_calls>>

AddItemAt(d, id, refs, location) == AddItemUpTo(d, id, refs, location, MaxId)

AddItemCall(d, id, refs) == AddItemAt(d, id, refs, None)

\* builtin_or_resolved_ty(ItemId::next(), parent_id, ty, location), while
\* ids up to max_id are issued
BuiltinOrResolvedTyCallUpTo(ty, location, parent_id, max_id) ==
    /\ Parsing
    /\ next_id <= max_id
    /\ CommitUpTo(builtin_or_resolved_ty(NextId(Ctx), next_id, parent_id, ty,
                                         location).c, max_id)
    /\ UNCHANGED <<modules, root_module, current_module, replacements, warned,
                   gen_ctx, options, with_module_stack, iter, produced,
                   debug_assertions, hash_seed, first_run,
                   parsed_macros, macro_calls>>

BuiltinOrResolvedTyCall(ty, location, parent_id) ==
    BuiltinOrResolvedTyCallUpTo(ty, location, parent_id, MaxId)

\* builtin_or_resolved_ty(with_id, parent_id, ty, location) with the id the
\* caller passes: one just drawn, or one that is already in the graph.
BuiltinOrResolvedTyWithId(with_id, parent_id, ty, location) ==
    /\ Parsing
    /\ next_id <= MaxId
    /\ LET c == IF with_id = next_id THEN NextId(Ctx) ELSE Ctx
       IN  Commit(builtin_or_resolved_ty(c, with_id, parent_id, ty,
                                         location).c)
    /\ UNCHANGED <<modules, root_module, current_module, replacements, warned,
                   gen_ctx, options, with_module_stack, iter, produced,
                   debug_assertions, hash_seed, first_run,
                   parsed_macros, macro_calls>>

\* Item::from_ty_or_ref(ty, location, parent_id, ctx), while ids up to
\* max_id are issued
FromTyOrRefCallUpTo(ty, location, parent_id, max_id) ==
    /\ Parsing
    /\ next_id <= max_id
    /\ CommitUpTo(from_ty_or_ref(Ctx, ty, location, parent_id).c, max_id)
    /\ UNCHANGED <<modules, root_module, current_module, replacements, warned,
                   gen_ctx, options, with_module_stack, iter, produced,
                   debug_assertions, hash_seed, first_run,
                   parsed_macros, macro_calls>>

FromTyOrRefCall(ty, location, parent_id) ==
    FromTyOrRefCallUpTo(ty, location, parent_id, MaxId)

\* The ids the parser passes to replace: the id of the declaration that
\* carries the replaces="name" annotation, in the graph already or drawn from
\* ItemId::next() for an item that is never added.
AnnotatedIds ==
    {id \in DOMAIN items :
        items[id].kind = "Type" /\ items[id].tk \in {"Comp", "Alias"}}
    \cup {next_id}

\* replace with the occupied entry overwritten: the last writer wins.
replace_overwrite(table, name, potential_ty) ==
    Insert(table, name, potential_ty)

\* BindgenContext::replace: the replacement table after the call.
replace(table, name, potential_ty) ==
    IF name \in DOMAIN table THEN table
    ELSE Insert(table, name, potential_ty)

\* The parser meets a replaces="name" annotation on the declaration with
\* the id potential_ty and calls replace(name, potential_ty).
Replace(name, potential_ty) ==
    /\ Parsing
    /\ potential_ty <= MaxId
    /\ replacements' = replace(replacements, name, potential_ty)
    /\ warned' = IF name \in DOMAIN replacements THEN warned \cup {name}
                 ELSE warned
    /\ next_id' = IF potential_ty = next_id THEN next_id + 1 ELSE next_id
    /\ UNCHANGED <<items, types, modules, root_module, current_module,
                   collected_typerefs, gen_ctx, options, with_module_stack,
                   iter, produced, panicked, panic_msg,
                   debug_assertions, hash_seed, first_run,
                   parsed_macros, macro_calls>>

\* The macro names of the header.
MacroNames == {"A", "B", "C"}

\* BindgenContext::parsed_macro
parsed_macro(macro_name) == macro_name \in parsed_macros

\* note_parsed_macro without its debug_assert!
note_parsed_macro_unchecked(macro_name) ==
    [parsed_macros |-> parsed_macros \cup {macro_name}, panicked |-> FALSE]

\* BindgenContext::note_parsed_macro: the set after the call, and whether
\* the debug_assert! has failed.
note_parsed_macro(macro_name) ==
    IF debug_assertions /\ macro_name \in parsed_macros
    THEN [parsed_macros |-> parsed_macros, panicked |-> TRUE]
    ELSE [parsed_macros |-> parsed_macros \cup {macro_name},
          panicked |-> FALSE]

\* The parser calls note_parsed_macro(macro_name).
NoteParsedMacro(macro_name) ==
    /\ Parsing
    /\ Len(macro_calls) < MaxNotes
    /\ macro_calls' = Append(macro_calls, macro_name)
    /\ LET noted == note_parsed_macro(macro_name)
       IN  /\ parsed_macros' = noted.parsed_macros
           /\ IF noted.panicked
              THEN Abort("note_parsed_macro: debug_assert!")
              ELSE UNCHANGED <<panicked, panic_msg>>
    /\ UNCHANGED <<items, types, modules, root_module, current_module,
                   replacements, warned, collected_typerefs, gen_ctx, options,
                   next_id, with_module_stack, iter, produced,
                   debug_assertions, hash_seed, first_run>>

\* BindgenContext::module(cursor)
Module(cursor) ==
    /\ Parsing
    /\ IF CursorKind(cursor) # "CXCursor_Namespace"
       THEN Commit(Panic(Ctx, "Be a nice person"))
       ELSE IF Canonical(cursor) \in DOMAIN modules
       THEN UNCHANGED <<items, types, next_id, collected_typerefs, panicked,
                        panic_msg>>
       ELSE /\ next_id <= MaxId
            /\ Commit(add_item(NextId(Ctx),
                               ModuleItem(next_id, current_module,
                                          ModuleName(Canonical(cursor))),
                               None, None))
    /\ UNCHANGED <<modules, root_module, current_module, replacements, warned,
                   gen_ctx, options, with_module_stack, iter, produced,
                   debug_assertions, hash_seed, first_run,
                   parsed_macros, macro_calls>>

\* with_module(module_id, cb) up to the call of cb
WithModuleEnter(module_id) ==
    /\ Parsing
    /\ Len(with_module_stack) < MaxDepth
    /\ IF debug_assertions /\ (module_id \notin DOMAIN items
                               \/ items[module_id].kind # "Module")
       THEN /\ Abort("Wat")
            /\ UNCHANGED <<current_module, with_module_stack>>
       ELSE /\ current_module' = module_id
            /\ with_module_stack' =
                   Append(with_module_stack,
                          [module_id |-> module_id,
                           previous_id |-> current_module,
                           children |-> <<>>])
            /\ UNCHANGED <<panicked, panic_msg>>
    /\ UNCHANGED <<items, types, modules, root_module, replacements, warned,
                   collected_typerefs, gen_ctx, options, next_id, iter,
                   produced, debug_assertions, hash_seed, first_run,
                   parsed_macros, macro_calls>>

\* The number of children the modules of the graph hold, all together.
RECURSIVE CountChildren(_)
CountChildren(ids) ==
    IF ids = {} THEN 0
    ELSE LET id == CHOOSE i \in ids : TRUE
         IN  Len(items[id].children) + CountChildren(ids \ {id})

ChildrenCollected == CountChildren(ModuleIds)

\* The callback of the innermost with_module pushes to `children` the id of
\* the item it has just parsed in the module.
CallbackPush(id) ==
    /\ Parsing
    /\ with_module_stack # <<>>
    /\ id \in DOMAIN items
    /\ id # current_module
    /\ items[id].parent = current_module
    /\ LET top == Len(with_module_stack)
       IN  /\ ChildrenCollected + Len(with_module_stack[top].children)
                  < MaxChildren
           /\ with_module_stack' =
                  [with_module_stack EXCEPT ![top].children = Append(@, id)]
    /\ UNCHANGED <<items, types, modules, root_module, current_module,
                   replacements, warned, collected_typerefs, gen_ctx, options,
                   next_id, iter, produced, panicked, panic_msg,
                   debug_assertions, hash_seed, first_run,
                   parsed_macros, macro_calls>>

\* with_module that forgets `self.current_module = previous_id`
WithModuleExit_no_restore ==
    /\ Parsing
    /\ with_module_stack # <<>>
    /\ LET frame == with_module_stack[Len(with_module_stack)]
       IN  /\ frame.module_id \in DOMAIN items
           /\ items' = [items EXCEPT ![frame.module_id].children =
                                         @ \o frame.children]
           /\ with_module_stack' =
                  SubSeq(with_module_stack, 1, Len(with_module_stack) - 1)
    /\ UNCHANGED <<types, modules, root_module, current_module, replacements,
                   warned, collected_typerefs, gen_ctx, options, next_id, iter,
                   produced, panicked, panic_msg,
                   debug_assertions, hash_seed, first_run,
                   parsed_macros, macro_calls>>

\* with_module(module_id, cb) once cb has returned
WithModuleExit ==
    /\ Parsing
    /\ with_module_stack # <<>>
    /\ LET frame == with_module_stack[Len(with_module_stack)]
       IN  IF frame.module_id \notin DOMAIN items
              \/ items[frame.module_id].kind # "Module"
           THEN /\ Abort("Not a module?")
                /\ UNCHANGED <<items, current_module, with_module_stack>>
           ELSE /\ items' = [items EXCEPT ![frame.module_id].children =
                                              @ \o frame.children]
                /\ current_module' = frame.previous_id
                /\ with_module_stack' =
                       SubSeq(with_module_stack, 1, Len(with_module_stack) - 1)
                /\ UNCHANGED <<panicked, panic_msg>>
    /\ UNCHANGED <<types, modules, root_module, replacements, warned,
                   collected_typerefs, gen_ctx, options, next_id, iter,
                   produced, debug_assertions, hash_seed, first_run,
                   parsed_macros, macro_calls>>

\* gen(cb) up to the call of cb, while ids up to max_id are issued
GenBeginUpTo(max_id) ==
    /\ Parsing
    /\ gen_ctx' = TRUE
    /\ CommitUpTo(gen_setup(Ctx), max_id)
    /\ UNCHANGED <<modules, root_module, current_module, replacements, warned,
                   options, with_module_stack, iter, produced,
                   debug_assertions, hash_seed, first_run,
                   parsed_macros, macro_calls>>

GenBegin == GenBeginUpTo(MaxId)

\* gen(cb) once cb has returned; the iterator borrowed the context and is gone
GenEnd ==
    /\ ~panicked
    /\ gen_ctx
    /\ gen_ctx' = FALSE
    /\ iter' = NoIter
    /\ produced' = <<>>
    /\ UNCHANGED <<items, types, modules, root_module, current_module,
                   replacements, warned, collected_typerefs, options, next_id,
                   with_module_stack, panicked, panic_msg,
                   debug_assertions, hash_seed, first_run,
                   parsed_macros, macro_calls>>

\* in_codegen_phase that reads the one-shot flag of gen instead of gen_ctx
in_codegen_phase_collected == collected_typerefs

\* BindgenContext::in_codegen_phase
in_codegen_phase == gen_ctx

\* BindgenContext::whitelisted_items
WhitelistedItems ==
    /\ ~panicked
    /\ ~iter.active
    /\ IF ~in_codegen_phase \/ current_module # root_module
       THEN /\ Abort("whitelisted_items: assert!")
            /\ UNCHANGED <<iter, produced>>
       ELSE /\ iter' = [active |-> TRUE, seen |-> roots,
                        to_iterate |-> Descending(roots), exhausted |-> FALSE]
            /\ produced' = <<>>
            /\ UNCHANGED <<panicked, panic_msg>>
    /\ UNCHANGED <<items, types, modules, root_module, current_module,
                   replacements, warned, collected_typerefs, gen_ctx, options,
                   next_id, with_module_stack,
                   debug_assertions, hash_seed, first_run,
                   parsed_macros, macro_calls>>

\* WhitelistedItemsIter::next
IterNext ==
    /\ ~panicked
    /\ iter.active
    /\ ~iter.exhausted
    /\ IF iter.to_iterate = <<>>
       THEN /\ iter' = [iter EXCEPT !.exhausted = TRUE]
            /\ UNCHANGED <<produced, panicked, panic_msg>>
       ELSE LET n == Len(iter.to_iterate)
                id == iter.to_iterate[n]
                popped == [iter EXCEPT !.to_iterate = SubSeq(@, 1, n - 1)]
            IN  IF \/ debug_assertions /\ id \notin iter.seen
                   \/ id \notin DOMAIN items
                THEN /\ Abort("next: not an item")
                     /\ UNCHANGED <<iter, produced>>
                ELSE /\ iter' = push_unseen(popped,
                                            Ascending(collect_types(id)))
                     /\ produced' = Append(produced, id)
                     /\ UNCHANGED <<panicked, panic_msg>>
    /\ UNCHANGED <<items, types, modules, root_module, current_module,
                   replacements, warned, collected_typerefs, gen_ctx, options,
                   next_id, with_module_stack,
                   debug_assertions, hash_seed, first_run,
                   parsed_macros, macro_calls>>

\* ---------------------------------------------------------- specification

NoOptions == [types |-> {}, functions |-> {}, vars |-> {}]

\* BindgenContext::new(options): the root module is the first item.  The
\* operations of the parse only get from and insert into the HashMaps, so
\* one hasher state stands for all; the runs of SpecRuns draw theirs.
Init ==
    /\ items = (1 :> ModuleItem(1, 1, "root"))
    /\ types = << >>
    /\ modules = << >>
    /\ root_module = 1
    /\ current_module = 1
    /\ replacements = << >>
    /\ warned = {}
    /\ collected_typerefs = FALSE
    /\ gen_ctx = FALSE
    /\ options = NoOptions
    /\ next_id = 2
    /\ with_module_stack = <<>>
    /\ iter = NoIter
    /\ produced = <<>>
    /\ panicked = FALSE
    /\ panic_msg = None
    /\ debug_assertions \in BOOLEAN
    /\ hash_seed = 0
    /\ first_run = NoRun
    /\ parsed_macros = {}
    /\ macro_calls = <<>>

Next ==
    \/ \E d \in Declared, id \in DOMAIN items \cup {next_id} :
          \E refs \in RefChoices(d, id) : AddItemCall(d, id, refs)
    \/ \E o \in Occurrences : BuiltinOrResolvedTyCall(o[1], o[2], o[3])
    \/ \E o \in Occurrences : FromTyOrRefCall(o[1], o[2], o[3])
    \/ \E name \in Names, potential_ty \in AnnotatedIds :
          Replace(name, potential_ty)
    \/ \E cursor \in {"ns1", "ns1b", "declS"} : Module(cursor)
    \/ GenBegin
    \/ GenEnd

Spec == Init /\ [][Next]_vars

\* The module tree alone: namespaces are entered and left, and the callback
\* of with_module hands the items parsed inside to the module.
NextChildren ==
    \/ \E d \in {d \in Declared : d.kind = "Function"} :
          AddItemCall(d, next_id, {})
    \/ \E cursor \in {"ns1", "ns1b", "declS"} : Module(cursor)
    \/ \E module_id \in ModuleIds : WithModuleEnter(module_id)
    \/ CallbackPush(next_id - 1)
    \/ WithModuleExit

SpecChildren == Init /\ [][NextChildren]_vars

\* Class templates: the parser registers the generic declaration of
\* `template<..> class Tmpl`, with one or with two template parameters, and
\* the struct S, and then meets fields of type Tmpl<S>: at locField1 the
\* field names the argument S, at locField0 it names none.
DeclaredTemplates ==
    {[kind |-> "Type", tk |-> "Comp", name |-> "Tmpl", decl |-> "declTmpl",
      variants |-> {}, nargs |-> n] : n \in 1 .. 2}

TemplateOccurrences ==
    {<<"TmplS", location, parent_id>> :
        location \in {"locField1", "locField0"}, parent_id \in DOMAIN items}

NextTemplate ==
    \/ \E d \in DeclaredTemplates : AddItemCall(d, next_id, {})
    \/ \E d \in {d \in Declared : d.decl = "declS"} :
          AddItemCall(d, next_id, {})
    \/ \E o \in TemplateOccurrences :
          BuiltinOrResolvedTyCall(o[1], o[2], o[3])
    \/ \E o \in TemplateOccurrences : FromTyOrRefCall(o[1], o[2], o[3])

SpecTemplate == Init /\ [][NextTemplate]_vars

\* Primitive types: the parser looks up int, and a type that is neither
\* registered nor primitive, at the top level and inside namespaces.
NextBuiltin ==
    \/ \E ty \in {"int", "Bad"} :
          BuiltinOrResolvedTyCallUpTo(ty, None, NoId, MaxBuiltinId)
    \/ \E cursor \in {"ns1", "ns1b", "declS"} : Module(cursor)
    \/ \E module_id \in ModuleIds : WithModuleEnter(module_id)
    \/ WithModuleExit

SpecBuiltin == Init /\ [][NextBuiltin]_vars

\* Types no registry key can be formed for: a pointer to S, whose
\* declaration is the invalid cursor, and the struct L, whose declaration is
\* valid and has no USR.  The struct S, which has one, is there to compare.
DeclaredUnkeyed ==
    {[kind |-> "Type", tk |-> "Pointer", name |-> None, decl |-> NullCursor,
      variants |-> {}, nargs |-> 0],
     [kind |-> "Type", tk |-> "Comp", name |-> "L", decl |-> "declL",
      variants |-> {}, nargs |-> 0]}

\* The parser adds such types, met at no location or at a field, and looks
\* their raw types up again.
NextUnkeyed ==
    \/ \E d \in DeclaredUnkeyed, location \in {None, "locField1"} :
          AddItemAt(d, next_id, {}, location)
    \/ \E d \in {d \in Declared : d.decl = "declS"} :
          AddItemCall(d, next_id, {})
    \/ \E ty \in {"PtrS", "L", "S"} : BuiltinOrResolvedTyCall(ty, None, NoId)

SpecUnkeyed == Init /\ [][NextUnkeyed]_vars

\* The two phases: the parser declares functions and enters and leaves
\* namespaces, gen is called at any point of the parse, and whitelisted_items
\* is called inside the gen callback and outside it.
NextPhase ==
    \/ \E d \in {d \in Declared : d.kind = "Function"} :
          AddItemCall(d, next_id, {})
    \/ \E cursor \in {"ns1", "ns1b", "declS"} : Module(cursor)
    \/ \E module_id \in ModuleIds : WithModuleEnter(module_id)
    \/ WithModuleExit
    \/ GenBegin
    \/ GenEnd
    \/ WhitelistedItems
    \/ IterNext

SpecPhase == Init /\ [][NextPhase]_vars

\* ------------------------------------ specification of the iterator alone
\* The whitelisted-items iteration over any small graph a finished parse
\* can leave behind, inside a gen callback, under each kind of whitelist.

\* The items a drawn graph is made of; every one is a child of the root.
GraphItems(id, ids) ==
    {Item(id, "Function", 1, "S", None, NoId, {signature}, None, None, NoId,
          {}) : signature \in ids}
    \cup {Item(id, "Var", 1, "R", None, NoId, {ty}, None, None, NoId, {}) :
             ty \in ids}
    \cup {TypeItem(id, 1, "S", "Comp", NoId, refs) : refs \in SUBSET ids}
    \cup {TypeItem(id, 1, "S", "ResolvedTypeRef", target, {}) : target \in ids}
    \cup {Item(id, "Type", 1, None, "Enum", NoId, {}, None, None, NoId,
               {"RED"}),
          Item(id, "Type", 1, "E", "Enum", NoId, {}, None, None, NoId,
               {"RED"}),
          ModuleItem(id, 1, "N")}

Graphs ==
    UNION {LET ids == 2 .. n + 1
           IN  {g \in [1 .. n + 1 -> UNION {GraphItems(i, ids) : i \in ids}
                                      \cup {ModuleItem(1, 1, "root")}] :
                   /\ g[1] = ModuleItem(1, 1, "root")
                   /\ \A i \in ids : g[i].id = i} :
           n \in 0 .. MaxGraph}

Whitelists ==
    {NoOptions,
     [NoOptions EXCEPT !.types = {"S"}],
     [NoOptions EXCEPT !.functions = {"S"}],
     [NoOptions EXCEPT !.vars = {"R"}],
     [NoOptions EXCEPT !.vars = {"RED"}]}

InitWL ==
    /\ items \in Graphs
    /\ types = << >>
    /\ modules = << >>
    /\ root_module = 1
    /\ current_module = 1
    /\ replacements = << >>
    /\ warned = {}
    /\ collected_typerefs = TRUE
    /\ gen_ctx = TRUE
    /\ options \in Whitelists
    /\ next_id = Cardinality(DOMAIN items) + 1
    /\ with_module_stack = <<>>
    /\ iter = NoIter
    /\ produced = <<>>
    /\ panicked = FALSE
    /\ panic_msg = None
    /\ debug_assertions \in BOOLEAN
    /\ hash_seed \in HashSeeds
    /\ first_run = NoRun
    /\ parsed_macros = {}
    /\ macro_calls = <<>>

NextWL ==
    \/ WhitelistedItems
    \/ IterNext

SpecWL == InitWL /\ [][NextWL]_vars

\* Two runs on one input: when the iteration of the first run is over, its
\* output is kept and the program is run again on the same input, with the
\* hasher state that run draws.  BindgenContext::items is the BTreeMap's
\* iterator.
Rerun ==
    /\ ~panicked
    /\ iter.exhausted
    /\ ~first_run.done
    /\ first_run' = [done |-> TRUE, hash_seed |-> hash_seed,
                     items |-> Ascending(DOMAIN items),
                     produced |-> produced]
    /\ hash_seed' \in HashSeeds
    /\ iter' = NoIter
    /\ produced' = <<>>
    /\ UNCHANGED <<items, types, modules, root_module, current_module,
                   replacements, warned, collected_typerefs, gen_ctx, options,
                   next_id, with_module_stack, panicked, panic_msg,
                   debug_assertions, parsed_macros, macro_calls>>

NextRuns ==
    \/ WhitelistedItems
    \/ IterNext
    \/ Rerun

SpecRuns == InitWL /\ [][NextRuns]_vars

\* Insertions under an id that may be in the graph already: the struct S
\* and the class template are added, and S, int and fields of type Tmpl<S>
\* are looked up, each with a fresh id or with the id of an item.
NextInsert ==
    \/ \E d \in DeclaredTemplates \cup {d \in Declared : d.decl = "declS"},
          id \in DOMAIN items \cup {next_id} : AddItemCall(d, id, {})
    \/ \E with_id \in DOMAIN items \cup {next_id},
          o \in TemplateOccurrences
                  \cup {<<"S", None, NoId>>, <<"int", None, NoId>>} :
          BuiltinOrResolvedTyWithId(with_id, o[3], o[1], o[2])

SpecInsert == Init /\ [][NextInsert]_vars

\* Anonymous types: the two anonymous structs nested in S, which share a
\* USR, and S itself are added and looked up.
DeclaredAnonymous ==
    {[kind |-> "Type", tk |-> "Comp", name |-> None, decl |-> decl,
      variants |-> {}, nargs |-> 0] : decl \in {"declA1", "declA2"}}

NextAnonymous ==
    \/ \E d \in DeclaredAnonymous \cup {d \in Declared : d.decl = "declS"} :
          AddItemCall(d, next_id, {})
    \/ \E ty \in {"A1", "A2", "S"} : BuiltinOrResolvedTyCall(ty, None, NoId)

SpecAnonymous == Init /\ [][NextAnonymous]_vars

\* Macros: the parser notes the macros it has parsed, by name.
NextMacros ==
    \E macro_name \in MacroNames : NoteParsedMacro(macro_name)

SpecMacros == Init /\ [][NextMacros]_vars

\* The parser leaves several references to types it has not seen declared
\* yet, declares some of them later, and gen resolves what is left; ids up
\* to MaxResolveId are issued, so that two references can be resolved to a
\* new item each.
NextResolve ==
    \/ \E ty \in {"S", "PtrS", "Bad"} :
          FromTyOrRefCallUpTo(ty, None, NoId, MaxResolveId)
    \/ \E d \in {d \in Declared : d.decl = "declS"} :
          AddItemUpTo(d, next_id, {}, None, MaxResolveId)
    \/ GenBeginUpTo(MaxResolveId)
    \/ GenEnd

SpecResolve == Init /\ [][NextResolve]_vars

\* A class template and a struct are declared, either may carry a
\* replaces="Tmpl" annotation, uses of the template are looked up or left
\* for gen to resolve, and the context is used again after gen has
\* returned.
NextWrapper ==
    \/ \E d \in DeclaredTemplates \cup {d \in Declared : d.decl = "declS"} :
          AddItemCall(d, next_id, {})
    \/ \E potential_ty \in AnnotatedIds \ {next_id} :
          Replace("Tmpl", potential_ty)
    \/ \E o \in TemplateOccurrences :
          BuiltinOrResolvedTyCall(o[1], o[2], o[3])
    \/ \E o \in TemplateOccurrences : FromTyOrRefCall(o[1], o[2], o[3])
    \/ GenBegin
    \/ GenEnd

SpecWrapper == Init /\ [][NextWrapper]_vars

\* The consumer of the iterator is a loop that calls next until it gets None.
SpecWLFair == SpecWL /\ WF_vars(IterNext)

\* ------------------------------------------------------------------ claims

\* The item a call of add_item for the declaration d hands over.
DeclaredItem(d, id, refs) ==
    [Item(id, d.kind, current_module, d.name, d.tk, NoId, refs, None, None,
          NoId, d.variants)
     EXCEPT !.nargs = d.nargs]

\* C1: add_item with an id that is already in the item graph aborts, and a
\* call of add_item that returns has put a new id into the graph, so that no
\* id is the subject of two successful calls.
C1_DuplicateIdIsFatal ==
    [][\A d \in Declared, id \in DOMAIN items \cup {next_id} :
          \A refs \in RefChoices(d, id) :
             AddItemCall(d, id, refs) =>
                /\ id \in DOMAIN items =>
                      panicked' /\ panic_msg' = "add_item: Inserted type twice?"
                /\ ~panicked' =>
                      /\ id \notin DOMAIN items
                      /\ id \in DOMAIN items'
                      /\ items'[id] = DeclaredItem(d, id, refs)]_vars

\* C1 witness: an add_item for an id of the graph has aborted the process.
C1_Witness ==
    /\ panicked
    /\ panic_msg = "add_item: Inserted type twice?"
    /\ Cardinality(DOMAIN items) > 1

\* C2: the set of ids of the item graph only grows: no step of add_item,
\* builtin_or_resolved_ty, from_ty_or_ref, module, with_module, replace or
\* gen takes an id out of the graph, so an id that was collected earlier can
\* still be dereferenced.
C2_IdsOnlyGrow == [][DOMAIN items \subseteq DOMAIN items']_vars

\* C2 witness: generation has redirected a replaced item and resolved a
\* deferred reference, and both are still in the graph.
C2_Witness ==
    /\ ~panicked
    /\ gen_ctx
    /\ \E id \in DOMAIN items, other \in DOMAIN items :
          /\ id # other
          /\ items[id].tk = "ResolvedTypeRef"
          /\ items[id].name \in DOMAIN replacements
          /\ replacements[items[id].name] = items[id].target
          /\ items[other].tk = "ResolvedTypeRef"
          /\ items[other].name = None

\* The items whose Type kind is UnresolvedTypeRef.
Unresolved ==
    {id \in DOMAIN items :
        items[id].kind = "Type" /\ items[id].tk = "UnresolvedTypeRef"}

\* C3: while the callback of gen runs, no item of the graph is an
\* UnresolvedTypeRef: neither one left by the parse nor one made while the
\* references were resolved.
C3_NoUnresolvedInGeneration == (gen_ctx /\ ~panicked) => Unresolved = {}

\* C3 witness: the callback of gen runs on a graph where a deferred
\* reference was resolved through an item made during the resolution.
C3_Witness ==
    /\ gen_ctx
    /\ ~panicked
    /\ \E id \in DOMAIN items :
          /\ items[id].tk = "ResolvedTypeRef"
          /\ items[id].name = None
          /\ items[id].target > id
          /\ items[id].target \in DOMAIN items
          /\ items[items[id].target].tk = "ResolvedTypeRef"

\* C4: collected_typerefs never goes back to false and is set by the set-up
\* of a gen call only; a gen call that reaches its callback leaves it set;
\* a gen call that finds it set gets to its callback with every item as it
\* was, so that resolution and replacement run on the first gen call alone.
C4_ResolvedOnce ==
    [][/\ collected_typerefs => collected_typerefs'
       /\ collected_typerefs' # collected_typerefs => ~gen_ctx /\ gen_ctx'
       /\ (~gen_ctx /\ gen_ctx' /\ ~panicked') => collected_typerefs'
       /\ (~gen_ctx /\ gen_ctx' /\ collected_typerefs) =>
              items' = items /\ ~panicked']_vars

\* C4 witness: the callback of a later gen call runs on a graph that holds
\* an item a replacement registered since the first call would redirect.
C4_Witness ==
    /\ gen_ctx
    /\ ~panicked
    /\ collected_typerefs
    /\ \E id \in DOMAIN items : replaceable(Ctx, id)

\* Does following ResolvedTypeRef targets from id come to an item of seen,
\* or back to an item it passed on the way?
RECURSIVE Revisits(_, _)
Revisits(id, seen) ==
    IF id \in seen THEN TRUE
    ELSE IF id \notin DOMAIN items \/ items[id].tk # "ResolvedTypeRef"
    THEN FALSE
    ELSE Revisits(items[id].target, seen \cup {id})

\* C5: in the graph the callback of gen sees, the target of every
\* ResolvedTypeRef is an item of the graph and following the targets from any
\* item never comes back to an item already passed.
C5_NoDanglingForwards ==
    (gen_ctx /\ ~panicked) =>
        \A id \in DOMAIN items :
            items[id].tk = "ResolvedTypeRef" =>
                /\ items[id].target \in DOMAIN items
                /\ ~Revisits(id, {})

\* The first half of C5 alone: every ResolvedTypeRef names an item of the
\* graph.
C5_TargetsExist ==
    \A id \in DOMAIN items :
        items[id].tk = "ResolvedTypeRef" => items[id].target \in DOMAIN items

\* C6 as stated: when gen reaches its callback, every item other than X
\* whose canonical name is a name registered as replaced by X is a
\* ResolvedTypeRef(X).
C6_EveryNamesakeRedirected ==
    (gen_ctx /\ ~panicked) =>
        \A name \in DOMAIN replacements, id \in DOMAIN items :
            (id # replacements[name] /\ canonical_name(items[id]) = name) =>
                /\ items[id].tk = "ResolvedTypeRef"
                /\ items[id].target = replacements[name]

\* The kinds of item process_replacements looks at.
ReplaceableKind(item) ==
    /\ item.kind = "Type"
    /\ \/ item.tk = "Comp" /\ ~item.spec
       \/ item.tk \in {"TemplateAlias", "Alias"}

\* C6, amended: the first gen call that reaches its callback has made a
\* ResolvedTypeRef(X) of every item other than X that was a non-specialized
\* composite, a template alias or an alias with a canonical name registered
\* as replaced by X, provided X is the id of an item of the graph.
C6_ReplaceableNamesakeRedirected ==
    [][(~gen_ctx /\ gen_ctx' /\ ~collected_typerefs /\ ~panicked') =>
          \A name \in DOMAIN replacements, id \in DOMAIN items :
             (/\ id # replacements[name]
              /\ replacements[name] \in DOMAIN items'
              /\ ReplaceableKind(items[id])
              /\ canonical_name(items[id]) = name) =>
                 /\ items'[id].tk = "ResolvedTypeRef"
                 /\ items'[id].target = replacements[name]]_vars

\* C6 witness: gen has redirected an alias to its replacement and left a
\* function of the same name as it was.
C6_Witness ==
    /\ gen_ctx
    /\ ~panicked
    /\ \E id \in DOMAIN items, function \in DOMAIN items :
          /\ items[id].tk = "ResolvedTypeRef"
          /\ items[id].refs = {}
          /\ items[id].name \in DOMAIN replacements
          /\ items[id].target = replacements[items[id].name]
          /\ items[function].kind = "Function"
          /\ items[function].name = items[id].name

\* C7: no entry of the replacement table is ever changed or dropped; a step
\* that adds an entry adds one entry, for a name that had none; a step that
\* ignores a replace for a name that has an entry leaves the table as it is;
\* neither touches the items, the registry or the phase, and neither aborts.
C7_ReplaceAddOnce ==
    [][/\ \A name \in DOMAIN replacements :
             /\ name \in DOMAIN replacements'
             /\ replacements'[name] = replacements[name]
       /\ replacements' # replacements =>
             /\ Cardinality(DOMAIN replacements') =
                   Cardinality(DOMAIN replacements) + 1
             /\ warned' = warned
       /\ warned' # warned =>
             /\ replacements' = replacements
             /\ \E name \in DOMAIN replacements : warned' = warned \cup {name}
       /\ (replacements' # replacements \/ warned' # warned) =>
             /\ ~panicked'
             /\ UNCHANGED <<items, types, modules, current_module,
                            collected_typerefs, gen_ctx>>]_vars

\* C7 witness: a second replace for a name was ignored, and the entry of
\* the name is the id the first call gave.
C7_Witness ==
    /\ ~panicked
    /\ \E name \in warned :
          /\ name \in DOMAIN replacements
          /\ \E id \in AnnotatedIds : id # replacements[name]

\* The ids the iterator has returned.
Produced == {produced[i] : i \in 1 .. Len(produced)}

\* No element of the sequence occurs in it twice.
NoDuplicates(seq) ==
    \A i \in 1 .. Len(seq), j \in 1 .. Len(seq) : seq[i] = seq[j] => i = j

\* C8: once next has returned None, every id the collect_types of a
\* produced id enumerates has been produced too.
C8_ProducedClosed ==
    (iter.exhausted /\ ~panicked) =>
        \A id \in Produced : collect_types(id) \subseteq Produced

\* C8 witness: the iteration is over and has produced an item that is no
\* root, reached through a root that references it.
C8_Witness ==
    /\ iter.exhausted
    /\ ~panicked
    /\ \E id \in Produced, sub \in Produced :
          /\ sub \in collect_types(id)
          /\ is_root(items[id])
          /\ ~is_root(items[sub])

\* C9: an iteration that was begun comes to its end (next returns None) on
\* every graph, cyclic ones included; on the way the seen set never shrinks,
\* and no id is on the work stack or among the produced ids twice, or on the
\* stack after it was produced.
C9_IterationTerminates ==
    /\ [](NoDuplicates(produced \o iter.to_iterate))
    /\ [][iter.active => iter.seen \subseteq iter'.seen]_vars
    /\ iter.active ~> (iter.exhausted \/ panicked)

\* C9 witness: the iteration has ended on a graph where two items
\* reference each other and a third references itself.
C9_Witness ==
    /\ iter.exhausted
    /\ \E a \in Produced, b \in Produced, c \in Produced :
          /\ a # b
          /\ b \in collect_types(a)
          /\ a \in collect_types(b)
          /\ c \in collect_types(c)

\* The root set: what whitelisted_items has put into seen before the first
\* call of next.
AtRoots == iter.active /\ produced = <<>> /\ ~panicked

NothingWhitelisted ==
    options.types = {} /\ options.functions = {} /\ options.vars = {}

\* C10 as stated: no root is a Module; with a non-empty filter a root is a
\* Function, Var or Type whose canonical name matches the filter of its
\* kind; with all three filters empty the roots are the items that are no
\* Module.
C10_RootsNeverModules ==
    AtRoots =>
        /\ \A id \in iter.seen : items[id].kind # "Module"
        /\ ~NothingWhitelisted =>
              \A id \in iter.seen :
                 \/ /\ items[id].kind = "Function"
                    /\ canonical_name(items[id]) \in options.functions
                 \/ /\ items[id].kind = "Var"
                    /\ canonical_name(items[id]) \in options.vars
                 \/ /\ items[id].kind = "Type"
                    /\ canonical_name(items[id]) \in options.types
        /\ NothingWhitelisted =>
              iter.seen = {id \in DOMAIN items : items[id].kind # "Module"}

\* C10, amended: with a non-empty filter the roots are the Functions, Vars
\* and Types whose canonical name matches the filter of their kind and the
\* unnamed enums with a variant that matches the Var filter, and never a
\* Module; with all three filters empty every item is a root, the modules
\* too.
C10_Roots ==
    AtRoots =>
        /\ ~NothingWhitelisted =>
              iter.seen =
                 {id \in DOMAIN items :
                     \/ /\ items[id].kind = "Function"
                        /\ canonical_name(items[id]) \in options.functions
                     \/ /\ items[id].kind = "Var"
                        /\ canonical_name(items[id]) \in options.vars
                     \/ /\ items[id].kind = "Type"
                        /\ canonical_name(items[id]) \in options.types
                     \/ /\ items[id].kind = "Type"
                        /\ items[id].tk = "Enum"
                        /\ items[id].name = None
                        /\ items[id].variants \cap options.vars # {}}
        /\ NothingWhitelisted => iter.seen = DOMAIN items

\* C10 witness: nothing is whitelisted and the roots hold a namespace
\* module next to the root module.
C10_Witness ==
    /\ AtRoots
    /\ NothingWhitelisted
    /\ \E id \in iter.seen : id # root_module /\ items[id].kind = "Module"

\* The enums of the graph.
Enums == {id \in DOMAIN items : items[id].kind = "Type" /\ items[id].tk = "Enum"}

\* C11: an unnamed enum with a variant that matches the Var filter is a
\* root, whatever the Type filter says of its own name; an enum that has a
\* name the Type filter does not match is no root, whatever its variants.
C11_AnonymousEnumPromoted ==
    (AtRoots /\ ~NothingWhitelisted) =>
        \A id \in Enums :
            /\ (/\ items[id].name = None
                /\ items[id].variants \cap options.vars # {}) =>
                   id \in iter.seen
            /\ (/\ items[id].name # None
                /\ canonical_name(items[id]) \notin options.types) =>
                   id \notin iter.seen

\* C11 witness: the Var filter matches the variant of an unnamed and of a
\* named enum; the unnamed one is a root and the named one is not.
C11_Witness ==
    /\ AtRoots
    /\ \E anon \in Enums, named \in Enums :
          /\ items[anon].name = None
          /\ items[named].name # None
          /\ items[anon].variants \cap options.vars # {}
          /\ items[named].variants \cap options.vars # {}
          /\ canonical_name(items[anon]) \notin options.types
          /\ anon \in iter.seen
          /\ named \notin iter.seen

\* The sequence back to front.
Reverse(seq) == [i \in 1 .. Len(seq) |-> seq[Len(seq) + 1 - i]]

\* No root references anything: the iteration is the initial pop sequence.
RootsReferenceNothing == \A id \in roots : collect_types(id) = {}

\* C12 as stated: when no root references anything, the roots are produced
\* in the reverse of the ascending order of their ids.
C12_ProducedInReverse ==
    (iter.exhausted /\ ~panicked /\ RootsReferenceNothing) =>
        produced = Descending(roots)

\* C12, amended: when no root references anything, the roots are produced
\* in the ascending order of their ids, the order they entered the root set
\* in: the work stack holds them in the reverse of that order and is popped
\* from its end.
C12_ProducedInIdOrder ==
    (iter.active /\ ~panicked /\ RootsReferenceNothing) =>
        /\ produced \o Reverse(iter.to_iterate) = Ascending(roots)
        /\ iter.exhausted => produced = Ascending(roots)

\* C12 witness: the iteration is over, three roots that reference nothing
\* were produced, the least id first.
C12_Witness ==
    /\ iter.exhausted
    /\ ~panicked
    /\ RootsReferenceNothing
    /\ Len(produced) = 3
    /\ produced[1] < produced[2]
    /\ produced[2] < produced[3]

\* The registry key of the struct S, a named type: the USR of its canonical
\* declaration.
KeyS == <<"USR", Usr(Canonical(TyDeclaration("S")))>>

\* The wrappers of the graph that forward to the canonical node id.
WrappersOf(id) ==
    {w \in DOMAIN items :
        /\ items[w].kind = "Type"
        /\ items[w].tk = "ResolvedTypeRef"
        /\ items[w].target = id}

\* C13: once the struct S is registered, a builtin_or_resolved_ty call for
\* the type S that returns inserts exactly one item, under the fresh id it
\* was given, of kind ResolvedTypeRef(c) with c the id the registry holds
\* for the key; the registry and every other item stay as they were, so no
\* second canonical node appears and two such calls forward to the same c.
C13_RegistryHitWraps ==
    [][(/\ KeyS \in DOMAIN types
        /\ BuiltinOrResolvedTyCall("S", None, NoId)
        /\ ~panicked')
       => /\ types' = types
          /\ next_id \notin DOMAIN items
          /\ DOMAIN items' = DOMAIN items \cup {next_id}
          /\ \A id \in DOMAIN items : items'[id] = items[id]
          /\ items'[next_id].kind = "Type"
          /\ items'[next_id].tk = "ResolvedTypeRef"
          /\ items'[next_id].target = types[KeyS]
          /\ WrappersOf(types[KeyS]) \subseteq WrappersOf(types[KeyS])']_vars

\* C13 witness: S was registered once and looked up twice; two wrappers
\* forward to the one canonical node, the only Comp of the graph.
C13_Witness ==
    /\ ~panicked
    /\ KeyS \in DOMAIN types
    /\ Cardinality(WrappersOf(types[KeyS])) = 2
    /\ {id \in DOMAIN items : items[id].tk = "Comp"} = {types[KeyS]}

\* The Module items made for a namespace.  The parser of the model meets one
\* namespace, "ns1", reopened at "ns1b"; every other Module is the root.
NamespaceModules == ModuleIds \ {root_module}

\* C14 as stated: module(cursor) gives the same id each time it is called
\* for a namespace, so the graph holds one Module item per namespace.
C14_OneModulePerNamespace ==
    ~panicked => Cardinality(NamespaceModules) <= 1

\* The module that was current when the with_module call at depth i of the
\* stack was made: the module of the enclosing call, the root at the bottom.
EnclosingModule(i) ==
    IF i = 1 THEN root_module ELSE with_module_stack[i - 1].module_id

\* C15: at any nesting depth, while the callback of with_module(m, cb) runs
\* the current module is m and every enclosing call remembers the module
\* that was current when it was made; when the call returns, the current
\* module is that module again and the children the callback collected are
\* appended, in order, to the children of m.
C15_WithModuleRestores ==
    /\ [](~panicked =>
            /\ current_module =
                   (IF with_module_stack = <<>> THEN root_module
                    ELSE with_module_stack[Len(with_module_stack)].module_id)
            /\ \A i \in 1 .. Len(with_module_stack) :
                   with_module_stack[i].previous_id = EnclosingModule(i))
    /\ [][(Len(with_module_stack') < Len(with_module_stack) /\ ~panicked') =>
            LET top == Len(with_module_stack)
                frame == with_module_stack[top]
            IN  /\ current_module' = EnclosingModule(top)
                /\ with_module_stack' = SubSeq(with_module_stack, 1, top - 1)
                /\ items'[frame.module_id].children =
                       items[frame.module_id].children \o frame.children
                /\ \A id \in DOMAIN items \ {frame.module_id} :
                       items'[id] = items[id]]_vars

\* C15 witness: two nested with_module calls have returned, the current
\* module is the root again, and a module holds the two children its
\* callback collected, in the order they were parsed.
C15_Witness ==
    /\ ~panicked
    /\ with_module_stack = <<>>
    /\ current_module = root_module
    /\ \E m \in NamespaceModules, n \in NamespaceModules :
           /\ items[n].parent = m
           /\ Len(items[m].children) = 2
           /\ items[m].children[1] < items[m].children[2]

KeyTmpl == <<"USR", Usr(Canonical(TyDeclaration("TmplS")))>>

\* The ids of a sequence of ids.
Range(seq) == {seq[i] : i \in 1 .. Len(seq)}

\* The node from_ty_or_ref made for the type-reference child ty: a forward
\* to the registered declaration or a reference still to be resolved.
ArgumentFor(item, ty) ==
    /\ item.kind = "Type"
    /\ \/ item.tk = "ResolvedTypeRef" /\ item.name = TySpelling(ty)
       \/ item.tk = "UnresolvedTypeRef" /\ item.rawty = ty

\* Every TemplateRef has as many arguments as its generic declaration.
TemplateRefArity ==
    \A id \in DOMAIN items :
        (items[id].kind = "Type" /\ items[id].tk = "TemplateRef") =>
            /\ items[id].target \in DOMAIN items
            /\ Len(items[id].args) = items[items[id].target].nargs

C18_ArgumentMismatch ==
    /\ [](~panicked => \A id \in DOMAIN items :
                           items[id].parent \in DOMAIN items)
    /\ [][\A location \in {"locField1", "locField0"}, p \in DOMAIN items :
            (/\ ~panicked
             /\ KeyTmpl \in DOMAIN types
             /\ items[types[KeyTmpl]].nargs # Len(TypeRefChildren(location))
             /\ BuiltinOrResolvedTyCall("TmplS", location, p))
            => LET with_id == next_id
                   children == TypeRefChildren(location)
               IN  /\ ~panicked'
                   /\ with_id \notin DOMAIN items'
                   /\ DOMAIN items' =
                          DOMAIN items
                              \cup {with_id + i : i \in 1 .. Len(children)}
                   /\ \A i \in 1 .. Len(children) :
                          /\ ArgumentFor(items'[with_id + i], children[i])
                          /\ items'[with_id + i].parent = types[KeyTmpl]
                   /\ \A id \in DOMAIN items : items'[id] = items[id]
                   /\ types' = types]_vars

\* C18 witness: the generic has two template arguments, the field names
\* one; the argument node is in the graph under the generic, its id follows
\* an id under which nothing was inserted, and no TemplateRef was made.
C18_Witness ==
    /\ ~panicked
    /\ KeyTmpl \in DOMAIN types
    /\ items[types[KeyTmpl]].nargs = 2
    /\ \E id \in DOMAIN items :
           /\ items[id].tk = "UnresolvedTypeRef"
           /\ items[id].parent = types[KeyTmpl]
           /\ id - 1 \notin DOMAIN items
    /\ \A id \in DOMAIN items : items[id].tk # "TemplateRef"

\* The primitive-type items of the graph.
Builtins ==
    {id \in DOMAIN items : items[id].kind = "Type" /\ items[id].tk = "Int"}

\* C19: a lookup of the primitive type int adds exactly one item, under an
\* id drawn for it that was not in the graph, of kind Int, with the root
\* module as its parent whatever the current module is, and leaves the
\* registry as it was; so any two items made for int have different ids and
\* the same Type kind.
C19_BuiltinIsFresh ==
    /\ [](\A a \in Builtins, b \in Builtins :
             /\ items[a].parent = root_module
             /\ [items[a] EXCEPT !.id = b] = items[b])
    /\ [][(/\ ~panicked
           /\ BuiltinOrResolvedTyCallUpTo("int", None, NoId, MaxBuiltinId))
          => /\ ~panicked'
             /\ DOMAIN items' \ DOMAIN items = {next_id + 1}
             /\ next_id' = next_id + 2
             /\ items'[next_id + 1].kind = "Type"
             /\ items'[next_id + 1].tk = "Int"
             /\ items'[next_id + 1].parent = root_module
             /\ \A id \in DOMAIN items : items'[id] = items[id]
             /\ types' = types]_vars

\* C19 witness: int was looked up twice, the second time inside a
\* namespace; the graph holds two Int items and the registry nothing.
C19_Witness ==
    /\ ~panicked
    /\ Cardinality(Builtins) = 2
    /\ current_module # root_module
    /\ DOMAIN types = {}

\* The items made for the pointer to S and for the struct L.
Unkeyed ==
    {id \in DOMAIN items :
        /\ items[id].kind = "Type"
        /\ items[id].tk = "Pointer" \/ items[id].name = "L"}

\* The ids the registry maps a key to.
Registered == {types[k] : k \in DOMAIN types}

\* C20: add_item of a type whose canonical declaration is invalid, the
\* location not being a class-template cursor, or of a named type whose
\* valid declaration has no USR, inserts the item and leaves the registry as
\* it was; such an item is never in the registry, and no later lookup
\* answers with a forward to it.
C20_UnkeyedNotRegistered ==
    /\ [](/\ Unkeyed \cap Registered = {}
          /\ \A id \in Unkeyed : WrappersOf(id) = {})
    /\ [][\A d \in DeclaredUnkeyed, location \in {None, "locField1"} :
            (~panicked /\ AddItemAt(d, next_id, {}, location))
            => /\ ~panicked'
               /\ DOMAIN items' = DOMAIN items \cup {next_id}
               /\ next_id \notin DOMAIN items
               /\ items'[next_id].tk = d.tk
               /\ items'[next_id].name = d.name
               /\ types' = types]_vars

\* C20 witness: the struct L and the pointer are in the graph, a type was
\* looked up after the later of them (an id was drawn and nothing inserted
\* under it), and the registry is empty.
C20_Witness ==
    /\ ~panicked
    /\ DOMAIN types = {}
    /\ \E a \in Unkeyed, b \in Unkeyed :
           /\ items[a].name = "L"
           /\ items[b].tk = "Pointer"
           /\ next_id > a + 1
           /\ next_id > b + 1
           /\ DOMAIN items = {root_module, a, b}

C22_DuplicateTolerated ==
    [][\A macro_name \in MacroNames :
          (parsed_macro(macro_name) /\ NoteParsedMacro(macro_name)) =>
              /\ ~panicked'
              /\ parsed_macros' = parsed_macros]_vars

\* C22, amended: note_parsed_macro called with a name that is already
\* recorded aborts in a build with debug assertions; in a build without
\* them it does not fail and leaves the set as it was.  A name that is not
\* recorded is added to the set, and nothing is ever taken out of it.
C22_DuplicateToleratedInRelease ==
    [][\A macro_name \in MacroNames :
          NoteParsedMacro(macro_name) =>
              /\ panicked' <=> (debug_assertions /\ parsed_macro(macro_name))
              /\ ~panicked' =>
                     parsed_macros' = parsed_macros \cup {macro_name}
              /\ parsed_macros \subseteq parsed_macros']_vars

\* C22 witness: a build without debug assertions, and a macro noted twice:
\* the set holds it once.
C22_Witness ==
    /\ ~debug_assertions
    /\ ~panicked
    /\ Len(macro_calls) = 3
    /\ macro_calls[1] = macro_calls[3]
    /\ Cardinality(parsed_macros) = 2

\* C23 as stated: an insertion under an id that is already in the graph
\* aborts; no call that returns has replaced an item of the graph.
C23_NoSilentOverwrite ==
    [][~panicked' => \A id \in DOMAIN items : items'[id] = items[id]]_vars

\* The paths through add_item and add_builtin_item do abort: an item a
\* returning call has replaced was replaced by a TemplateRef.
C23_OnlyTemplateWrapperOverwrites ==
    [][~panicked' =>
          \A id \in DOMAIN items :
              items'[id] # items[id] => items'[id].tk = "TemplateRef"]_vars

\* C24 as stated: a registry key, once bound to an id, stays bound to that
\* id: no step removes a key or binds it to another id.
C24_KeysStayBound ==
    [][\A key \in DOMAIN types :
          key \in DOMAIN types' /\ types'[key] = types[key]]_vars

\* No key is ever removed, and with debug assertions none is rebound.
C24_KeysStayBoundInDebug ==
    [][\A key \in DOMAIN types :
          /\ key \in DOMAIN types'
          /\ debug_assertions => types'[key] = types[key]]_vars

\* The registry key of an anonymous declaration, and the USR the two share.
KeyAnonymous(decl) == <<"Declaration", Canonical(decl)>>

\* C25: add_item of an anonymous declaration binds the key
\* Declaration(canonical declaration) to the new item and touches no other
\* key, so the two anonymous declarations that share a USR get an entry
\* each and no entry is ever keyed by that USR; a lookup of the type of one
\* of them that finds something adds a wrapper forwarding to the id bound
\* to that declaration's own key, and finds nothing while only the other
\* declaration is registered.
C25_AnonymousByDeclaration ==
    /\ [](<<"USR", Usr("declA1")>> \notin DOMAIN types)
    /\ [][\A d \in DeclaredAnonymous :
            (AddItemCall(d, next_id, {}) /\ ~panicked') =>
                /\ DOMAIN types' = DOMAIN types \cup {KeyAnonymous(d.decl)}
                /\ types'[KeyAnonymous(d.decl)] = next_id
                /\ \A key \in DOMAIN types \ {KeyAnonymous(d.decl)} :
                       types'[key] = types[key]]_vars
    /\ [][\A ty \in {"A1", "A2"} :
            (BuiltinOrResolvedTyCall(ty, None, NoId) /\ ~panicked') =>
                IF KeyAnonymous(TyDeclaration(ty)) \in DOMAIN types
                THEN /\ DOMAIN items' = DOMAIN items \cup {next_id}
                     /\ items'[next_id].tk = "ResolvedTypeRef"
                     /\ items'[next_id].target =
                            types[KeyAnonymous(TyDeclaration(ty))]
                ELSE items' = items]_vars

\* C25 witness: both anonymous structs are registered, under different ids,
\* and a wrapper forwards to the first.
C25_Witness ==
    /\ ~panicked
    /\ KeyAnonymous("declA1") \in DOMAIN types
    /\ KeyAnonymous("declA2") \in DOMAIN types
    /\ types[KeyAnonymous("declA1")] # types[KeyAnonymous("declA2")]
    /\ WrappersOf(types[KeyAnonymous("declA1")]) # {}

\* C26: the replacement pass of the first gen call, which follows the
\* resolution of the type references, rewrites an item to
\* ResolvedTypeRef(target) exactly when the item is a non-specialized
\* composite, a template alias or an alias, its canonical name has the
\* replacement-table entry target, target is not the item's own id and
\* target is in the graph; it leaves every other item as it was, adds and
\* removes none, changes no id and no parent, and with an empty table
\* changes nothing.
C26_ReplacementFrame ==
    [][(~gen_ctx /\ gen_ctx' /\ ~collected_typerefs /\ ~panicked') =>
          LET resolved == resolve_typerefs(Ctx).items
          IN  /\ DOMAIN items' = DOMAIN resolved
              /\ DOMAIN replacements = {} => items' = resolved
              /\ \A id \in DOMAIN resolved :
                    LET name == canonical_name(resolved[id])
                    IN  /\ items'[id].id = id
                        /\ items'[id].parent = resolved[id].parent
                        /\ items'[id].kind = resolved[id].kind
                        /\ IF /\ ReplaceableKind(resolved[id])
                              /\ name \in DOMAIN replacements
                              /\ replacements[name] # id
                              /\ replacements[name] \in DOMAIN resolved
                           THEN /\ items'[id].tk = "ResolvedTypeRef"
                                /\ items'[id].target = replacements[name]
                           ELSE items'[id] = resolved[id]]_vars

\* C26 witness: gen has run with the struct S registered as replaced by an
\* item that is in the graph: a struct S forwards to the replacement, and
\* the replacement, a struct S itself, is still a struct.
C26_Witness ==
    /\ gen_ctx
    /\ ~panicked
    /\ "S" \in DOMAIN replacements
    /\ replacements["S"] \in DOMAIN items
    /\ items[replacements["S"]].tk = "Comp"
    /\ items[replacements["S"]].name = "S"
    /\ \E id \in DOMAIN items :
           /\ items[id].tk = "ResolvedTypeRef"
           /\ items[id].name = "S"
           /\ items[id].target = replacements["S"]

\* C27: the step of gen that resolves the recorded references takes them in
\* ascending id order (each is resolved to an item made for it, so the
\* targets ascend with the ids), rewrites each recorded item in place to
\* ResolvedTypeRef(resolved id) under the id and parent it had, leaves
\* every other item of the parse as it was, and the items made while
\* resolving are new ids that are never unresolved references themselves.
C27_BatchInIdOrder ==
    [][(~gen_ctx /\ gen_ctx' /\ ~panicked') =>
          /\ \A id \in Unresolved :
                 /\ id \in DOMAIN items'
                 /\ items'[id].id = id
                 /\ items'[id].kind = "Type"
                 /\ items'[id].tk = "ResolvedTypeRef"
                 /\ items'[id].parent = items[id].parent
                 /\ items'[id].target \in DOMAIN items' \ DOMAIN items
          /\ \A a, b \in Unresolved :
                 a < b => items'[a].target < items'[b].target
          /\ \A id \in DOMAIN items \ Unresolved : items'[id] = items[id]
          /\ \A id \in DOMAIN items' \ DOMAIN items :
                 /\ id >= next_id
                 /\ items'[id].tk # "UnresolvedTypeRef"]_vars

\* Two recorded references to a type declared nowhere in the parse: the
\* lower one was resolved to the new composite, the higher one to a wrapper
\* of it made afterwards.
C27_Witness ==
    /\ gen_ctx
    /\ ~panicked
    /\ \E a, b \in DOMAIN items :
           /\ a < b
           /\ items[a].tk = "ResolvedTypeRef"
           /\ items[b].tk = "ResolvedTypeRef"
           /\ items[a].target > b
           /\ items[b].target > items[a].target
           /\ items[items[a].target].tk = "Comp"
           /\ items[items[b].target].tk = "ResolvedTypeRef"
           /\ items[items[b].target].target = items[a].target

\* C28: while an iteration runs, every id produced so far is a root or is
\* among the ids collect_types enumerates for an id produced before it, and
\* every id on the work stack is in the seen set.
C28_ProducedReachable ==
    (iter.active /\ ~panicked) =>
        /\ \A i \in 1 .. Len(produced) :
               \/ produced[i] \in roots
               \/ \E j \in 1 .. i - 1 :
                     produced[i] \in collect_types(produced[j])
        /\ Range(iter.to_iterate) \subseteq iter.seen

\* C28 witness: a root was produced, then an item that is no root and that
\* the root references, while an item that nothing produced references and
\* that is no root stays out of the seen set.
C28_Witness ==
    /\ iter.active
    /\ ~panicked
    /\ Len(produced) = 2
    /\ produced[1] \in roots
    /\ produced[2] \notin roots
    /\ produced[2] \in collect_types(produced[1])
    /\ \E id \in DOMAIN items : id \notin roots /\ id \notin iter.seen

\* C29: build_template_wrapper never reaches its panic!("how?"): the id
\* the registry holds for a class template is an item of the graph whose
\* type kind is Comp whenever a use of the template is looked up.
C29_NeverHow == ~(panicked /\ panic_msg = "how?")

\* The panic is met neither while the header is parsed for the first time
\* nor while gen resolves the recorded references: it needs a lookup made
\* after gen has applied a replacement.
C29_NeverHowUntilReplaced ==
    (panicked /\ panic_msg = "how?") =>
        /\ collected_typerefs
        /\ "Tmpl" \in DOMAIN replacements
        /\ \E id \in DOMAIN items :
               /\ items[id].name = "Tmpl"
               /\ items[id].tk = "ResolvedTypeRef"
               /\ items[id].target = replacements["Tmpl"]

====
